---- MODULE Spec2Model ----
(***************************************************************************)
(* A model of krkn-ai's adaptive scenario-parameter subsystem:             *)
(*   - utils/pvc_utils.py : get_pvc_usage_percentage and its 5 s cache     *)
(*   - utils/rng.py       : the reseedable RNG wrapper                     *)
(*   - models/scenario/scenario_pvc.py : PVCScenario.mutate / parameters   *)
(*   - reporter/json_summary_reporter.py : the ranked and per-generation    *)
(*     lists of the results summary                                        *)
(* Time is counted in whole seconds.  A usage percentage is the exact      *)
(* rational used*100/capacity, kept as a normalised [num, den] pair.       *)
(***************************************************************************)
EXTENDS Integers, Sequences, FiniteSets, TLC

VARIABLES
    kubeconfig_path,    \* pvc_utils._kubeconfig_path
    pvc_usage_cache,    \* pvc_utils._pvc_usage_cache : key -> [usage, ts]
    logged_pvcs,        \* pvc_utils._logged_pvcs
    clock,              \* what time.time() returns
    call,               \* what the probe call of this step did (NoCall if none)
    frames,             \* per worker thread: where it is in the probe, its locals
    rng,                \* rng.rng, the shared RNG instance: [seed, gen]
    twin,               \* a second RNG instance
    draw,               \* what the RNG call of this step did (NoDraw if none)
    rframes,            \* per worker thread: where it is in an RNG call
    cluster_components, \* the snapshot a PVCScenario is built on: its namespaces
    scen,               \* the PVCScenario object: its parameter values
    mut,                \* what the mutate call of this step did (NoMutate if none)
    seen_population,    \* JSONSummaryReporter.seen_population.values(), in order
    best_of_generation, \* JSONSummaryReporter.best_of_generation
    summary             \* what generate_summary last returned (NoSummary if stale)

probeVars == <<kubeconfig_path, pvc_usage_cache, logged_pvcs, clock>>
rngVars == <<rng, twin, draw, rframes>>
reportVars == <<seen_population, best_of_generation, summary>>
scenVars == <<cluster_components, scen, mut, reportVars>>
vars == <<kubeconfig_path, pvc_usage_cache, logged_pvcs, clock, call, frames,
          rng, twin, draw, rframes, cluster_components, scen, mut,
          seen_population, best_of_generation, summary>>

----------------------------------------------------------------------------
(* Bounds of the model *)

MaxTime == 6        \* the clock stops advancing here
MaxDur == 1         \* longest time a remote fetch blocks
MaxPopulation == 11 \* most results a reporter is given
MaxGenerations == 2 \* most generations a reporter is given

----------------------------------------------------------------------------
(* Values *)

cache_ttl == 5

NoPath == "<None>"                      \* Python None for a kubeconfig path
KubeArgs == {NoPath, "kc"}              \* None, a path
Truthy(s) == s \notin {NoPath, ""}

Namespaces == {"ns1", "ns2"}
PvcNames == {"p1"}
Keys == Namespaces \X PvcNames          \* cache_key = (namespace, pvc_name)

Abs(n) == IF n < 0 THEN -n ELSE n

RECURSIVE Gcd(_, _)
Gcd(a, b) == IF b = 0 THEN a ELSE Gcd(b, a % b)

\* Python None as a probe result, and a float result n/d (d > 0, lowest terms)
None == [some |-> FALSE, num |-> 0, den |-> 1]
Ratio(n, d) ==
    LET g == Gcd(Abs(n), d)
    IN  [some |-> TRUE, num |-> n \div g, den |-> d \div g]

\* a <= b for two float results
RatLe(a, b) == a.num * b.den <= b.num * a.den

----------------------------------------------------------------------------
(* What the cluster answers to one fetch *)

Tok(v) == [num |-> TRUE, val |-> v]     \* a field int() accepts
Junk == [num |-> FALSE, val |-> 0]      \* a field int() rejects

\* (used, available) pairs the df line may carry
DfPairs == {<<0, 0>>, <<2, 2>>, <<0, 2>>}

\* resp of the exec: raw is "" (empty), "ws" (only whitespace) or "line"
Resps ==
    {[raw |-> "", fields |-> <<>>], [raw |-> "ws", fields |-> <<>>],
     [raw |-> "line", fields |-> <<Junk, Tok(4), Tok(1)>>],
     [raw |-> "line", fields |-> <<Junk, Tok(4), Junk, Tok(3)>>]}
    \cup {[raw |-> "line",
           fields |-> <<Junk, Tok(4), Tok(p[1]), Tok(p[2]), Junk, Junk>>] :
            p \in DfPairs}

NoResp == [raw |-> "", fields |-> <<>>]

\* kind: api_error (list_namespaced_pod raises), no_pod, no_mount,
\* exec_error (stream raises), resp (stream returns env.resp)
Envs ==
    {[kind |-> k, resp |-> NoResp] : k \in {"api_error", "no_pod", "no_mount", "exec_error"}}
    \cup {[kind |-> "resp", resp |-> r] : r \in Resps}

----------------------------------------------------------------------------
(* get_pvc_usage_percentage, one whole call *)

\* a variant that ignores the per-call argument
EffectiveKubeconfig_GlobalOnly(kubeconfig, global) == global

\* line 52: kubeconfig or _kubeconfig_path
EffectiveKubeconfig(kubeconfig, global) ==
    IF Truthy(kubeconfig) THEN kubeconfig ELSE global

\* a variant with the comparison turned around
IsFresh_Reversed(current_time, cached_timestamp) ==
    current_time - cached_timestamp > cache_ttl

\* a variant that still serves an entry exactly cache_ttl old
IsFresh_Inclusive(current_time, cached_timestamp) ==
    current_time - cached_timestamp <= cache_ttl

\* line 62: current_time - cached_timestamp < _cache_ttl
IsFresh(current_time, cached_timestamp) ==
    current_time - cached_timestamp < cache_ttl

\* a variant that reports a volume of capacity 0 as empty
ParseDf_ZeroCapacityIsEmpty(resp) ==
    IF resp.raw = "" \/ Len(resp.fields) < 4
    THEN [usage |-> None, msg |-> "none"]
    ELSE IF ~(resp.fields[3].num /\ resp.fields[4].num)
    THEN [usage |-> None, msg |-> "parse_failed"]
    ELSE IF resp.fields[3].val + resp.fields[4].val > 0
    THEN [usage |-> Ratio(resp.fields[3].val * 100,
                          resp.fields[3].val + resp.fields[4].val),
          msg |-> "found"]
    ELSE [usage |-> Ratio(0, 1), msg |-> "found"]

\* lines 129-157: what the parse of resp yields, and the message it logs
ParseDf(resp) ==
    IF resp.raw = ""
    THEN [usage |-> None, msg |-> "none"]
    ELSE IF Len(resp.fields) >= 4
    THEN IF resp.fields[3].num /\ resp.fields[4].num
         THEN LET pvc_used_kb == resp.fields[3].val
                  pvc_available_kb == resp.fields[4].val
                  pvc_capacity_kb == pvc_used_kb + pvc_available_kb
              IN  IF pvc_capacity_kb > 0
                  THEN [usage |-> Ratio(pvc_used_kb * 100, pvc_capacity_kb),
                        msg |-> "found"]
                  ELSE [usage |-> None, msg |-> "capacity_zero"]
         ELSE [usage |-> None, msg |-> "parse_failed"]
    ELSE [usage |-> None, msg |-> "unexpected_format"]

\* lines 70-160: the remote part of the call. remote counts the calls made to
\* the cluster (the pod listing, the exec).
Fetch(env) ==
    CASE env.kind = "api_error" ->
            [usage |-> None, msg |-> "failed", remote |-> 1]
      [] env.kind = "no_pod" ->
            [usage |-> None, msg |-> "no_pod", remote |-> 1]
      [] env.kind = "no_mount" ->
            [usage |-> None, msg |-> "no_mount", remote |-> 1]
      [] env.kind = "exec_error" ->
            [usage |-> None, msg |-> "failed", remote |-> 2]
      [] OTHER ->
            [usage |-> ParseDf(env.resp).usage, msg |-> ParseDf(env.resp).msg,
             remote |-> 2]

\* del d[key]
DictDel(d, key) == [k \in DOMAIN d \ {key} |-> d[k]]
\* d[key] = v
DictPut(d, key, v) == [k \in DOMAIN d \cup {key} |-> IF k = key THEN v ELSE d[k]]

\* a variant that leaves the marker in place
SetDiscard_Keeps(logged, cache_key) == logged

\* line 68: _logged_pvcs.discard(cache_key)
SetDiscard(logged, cache_key) == logged \ {cache_key}

\* line 144: if cache_key not in _logged_pvcs
ShouldLog(cache_key, logged) == cache_key \notin logged

\* lines 53-64: whether the call gets past the kubeconfig check and the cache
\* lookup, to the remote part
ReachesFetch(pvc_name, namespace, kubeconfig, global, cache, now) ==
    /\ Truthy(EffectiveKubeconfig(kubeconfig, global))
    /\ ~(/\ <<namespace, pvc_name>> \in DOMAIN cache
         /\ IsFresh(now, cache[<<namespace, pvc_name>>].ts))

\* The call run by one thread with no other thread interleaved.  dur is the
\* time the remote part takes.  Yields the return value, the new cache,
\* logged set and clock, and what the call did: the number of calls made to
\* the cluster, the messages logged, whether an entry was evicted.
Probe(pvc_name, namespace, kubeconfig, global, cache, logged, now, env, dur) ==
    LET kubeconfig_path_ == EffectiveKubeconfig(kubeconfig, global)
        cache_key == <<namespace, pvc_name>>
        had == cache_key \in DOMAIN cache
        base == [ret |-> None, cache |-> cache, logged |-> logged,
                 clock |-> now, remote |-> 0, msgs |-> <<>>, evicted |-> FALSE]
    IN  IF ~Truthy(kubeconfig_path_)
        THEN [base EXCEPT !.msgs = <<"no_kubeconfig">>]
        ELSE IF ~ReachesFetch(pvc_name, namespace, kubeconfig, global, cache, now)
        THEN [base EXCEPT !.ret = cache[cache_key].usage]
        ELSE LET cache1 == IF had THEN DictDel(cache, cache_key) ELSE cache
                 logged1 == IF had THEN SetDiscard(logged, cache_key) ELSE logged
                 f == Fetch(env)
                 stored == f.msg = "found"
                 logs == stored /\ ShouldLog(cache_key, logged1)
             IN  [base EXCEPT
                    !.ret = f.usage,
                    !.cache = IF stored
                              THEN DictPut(cache1, cache_key,
                                           [usage |-> f.usage, ts |-> now])
                              ELSE cache1,
                    !.logged = IF logs THEN logged1 \cup {cache_key} ELSE logged1,
                    !.clock = now + dur,
                    !.remote = f.remote,
                    !.msgs = IF f.msg = "none" \/ (stored /\ ~logs)
                             THEN <<>> ELSE <<f.msg>>,
                    !.evicted = had]

\* The record of one call: what it was given (its arguments, the global
\* kubeconfig, the time, the cache entry of its key, the cluster's answer)
\* and what it did (r, a result of Probe)
Observed(pvc_name, namespace, kubeconfig, env, r) ==
    LET cache_key == <<namespace, pvc_name>>
        had == cache_key \in DOMAIN pvc_usage_cache
    IN  [called |-> TRUE, key |-> cache_key, kubeconfig |-> kubeconfig,
         global |-> kubeconfig_path, now |-> clock, had |-> had,
         ets |-> IF had THEN pvc_usage_cache[cache_key].ts ELSE 0,
         eusage |-> IF had THEN pvc_usage_cache[cache_key].usage ELSE None,
         waslogged |-> cache_key \in logged_pvcs,
         answer |-> env,
         ret |-> r.ret, remote |-> r.remote, msgs |-> r.msgs,
         evicted |-> r.evicted]

\* the answer recorded for a call that never asks the cluster
NoAnswer == [kind |-> "none", resp |-> NoResp]

NoCall ==
    [called |-> FALSE, key |-> <<"", "">>, kubeconfig |-> NoPath,
     global |-> NoPath, now |-> 0, had |-> FALSE, ets |-> 0, eusage |-> None,
     waslogged |-> FALSE, answer |-> NoAnswer,
     ret |-> None, remote |-> 0, msgs |-> <<>>, evicted |-> FALSE]

----------------------------------------------------------------------------
(* utils/rng.py: the RNG wrapper.  numpy's generator is modelled as a       *)
(* congruential generator over GenStates: seeding with an integer fixes its *)
(* state, seeding with None takes a state from the system's entropy, and    *)
(* every draw reads the state and advances it.                              *)

GenMod == 8
GenStates == 0..(GenMod - 1)

NoSeed == -1                        \* seed=None
Seeds == {0, 1, 2}

SeedState(seed) == (3 * seed + 1) % GenMod
Step(g) == (5 * g + 3) % GenMod

\* np.random.default_rng(seed=seed); origin remembers the seed it was given
DefaultRng(seed, entropy) ==
    [state |-> IF seed = NoSeed THEN entropy ELSE SeedState(seed),
     origin |-> seed]

\* RNG.__init__
RngNew(seed, entropy) == [seed |-> seed, gen |-> DefaultRng(seed, entropy)]

\* a variant that records the seed and keeps the old generator
SetSeed_KeepsGenerator(r, seed, entropy) == [r EXCEPT !.seed = seed]

\* RNG.set_seed, run with no other thread interleaved
SetSeed(r, seed, entropy) ==
    [seed |-> seed, gen |-> DefaultRng(seed, entropy)]

\* RNG.get_seed
GetSeed(r) == r.seed

Advance(r) == [r EXCEPT !.gen.state = Step(@)]

\* a call's outcome: the value returned (or raised), and the instance after
Returned(v, r) == [raised |-> FALSE, out |-> v, rng |-> r]
Raised(r) == [raised |-> TRUE, out |-> 0, rng |-> r]

\* RNG.random: a float in [0, 1), here state/GenMod kept as its numerator
Random(r) == Returned(r.gen.state, Advance(r))

\* RNG.choice: numpy refuses an empty sequence before it draws
Choice(r, items) ==
    IF Len(items) = 0
    THEN Raised(r)
    ELSE Returned(items[(r.gen.state % Len(items)) + 1], Advance(r))

\* a variant that draws even when low == high
Randint_AlwaysDraws(r, low, high) ==
    IF low > high
    THEN Raised(r)
    ELSE IF low = high
    THEN Returned(low, Advance(r))
    ELSE Returned(low + (r.gen.state % (high - low)), Advance(r))

\* RNG.randint: low itself when low == high, else a draw from [low, high);
\* numpy refuses low > high before it draws
Randint(r, low, high) ==
    IF low = high
    THEN Returned(low, r)
    ELSE IF low > high
    THEN Raised(r)
    ELSE Returned(low + (r.gen.state % (high - low)), Advance(r))

ChoiceArgs == {<<>>, <<10, 20>>, <<10, 20, 30>>}
RandintArgs == {<<0, 2>>, <<5, 5>>, <<1, 4>>, <<3, 1>>}
DegenerateArgs == {-1, 0, 5}            \* the low of a randint(low, low)

\* The record of one RNG call made on rng and, when both, on twin as well
\* (seed: the seed both were last given; alone: rng has since made a
\* randint(low, low) that twin has not; low: the low of that call)
NoDraw == [op |-> "none", seed |-> NoSeed, both |-> FALSE, out |-> 0,
           raised |-> FALSE, out2 |-> 0, raised2 |-> FALSE,
           alone |-> FALSE, low |-> 0]
Drawn(op, both, a, b) ==
    [op |-> op, seed |-> draw.seed, both |-> both, out |-> a.out,
     raised |-> a.raised, alone |-> draw.alone, low |-> 0,
     out2 |-> IF both THEN b.out ELSE 0,
     raised2 |-> IF both THEN b.raised ELSE FALSE]

\* a thread outside the RNG
IdleRngFrame == [pc |-> "idle", seed |-> NoSeed, seen |-> NoSeed, genof |-> NoSeed]

----------------------------------------------------------------------------
(* reporter/json_summary_reporter.py: JSONSummaryReporter.  A result is    *)
(* kept by what the two lists read of it: its scenario_id, generation_id   *)
(* and fitness score (an integer here).                                    *)

FitnessScores == {0, 1}
GenerationSize == 4     \* results executed per generation

Result(scenario_id, generation_id, fitness_score) ==
    [scenario_id |-> scenario_id, generation_id |-> generation_id,
     fitness_score |-> fitness_score]

RECURSIVE SortedDesc_Ascending(_)
\* a variant that sorts without reverse=True
SortedDesc_Ascending(results) ==
    IF results = <<>> THEN <<>>
    ELSE LET rest == SortedDesc_Ascending(Tail(results))
             low == SelectSeq(rest, LAMBDA r :
                        r.fitness_score < Head(results).fitness_score)
             high == SelectSeq(rest, LAMBDA r :
                        r.fitness_score >= Head(results).fitness_score)
         IN  low \o <<Head(results)>> \o high

RECURSIVE SortedDesc(_)
\* lines 151-155: sorted(values, key=fitness_score, reverse=True); the sort
\* is stable, equal scores keep their order
SortedDesc(results) ==
    IF results = <<>> THEN <<>>
    ELSE LET rest == SortedDesc(Tail(results))
             high == SelectSeq(rest, LAMBDA r :
                        r.fitness_score > Head(results).fitness_score)
             low == SelectSeq(rest, LAMBDA r :
                        r.fitness_score <= Head(results).fitness_score)
         IN  high \o <<Head(results)>> \o low

TopCount == 10

\* line 157: seq[:n]
Take(seq, n) == SubSeq(seq, 1, IF n < Len(seq) THEN n ELSE Len(seq))

\* lines 149-175: _build_best_scenarios (the scenario's type and parameters
\* are copied from the result and left out here)
BuildBestScenarios(population) ==
    LET top == Take(SortedDesc(population), TopCount)
    IN  [rank \in 1..Len(top) |->
            [rank |-> rank, scenario_id |-> top[rank].scenario_id,
             generation |-> top[rank].generation_id,
             fitness_score |-> top[rank].fitness_score]]

RECURSIVE SumScores(_)
SumScores(results) ==
    IF results = <<>> THEN 0
    ELSE Head(results).fitness_score + SumScores(Tail(results))

\* round(n / d, 4), in ten-thousandths: Python rounds a tie to the even digit
Round4(n, d) ==
    LET q == (n * 10000) \div d
        r == (n * 10000) % d
    IN  IF 2 * r < d THEN q
        ELSE IF 2 * r > d THEN q + 1
        ELSE IF q % 2 = 0 THEN q ELSE q + 1

\* lines 126-147: _build_fitness_progression
BuildFitnessProgression(best, population) ==
    [k \in 1..Len(best) |->
        LET i == k - 1
            gen_results == SelectSeq(population, LAMBDA r : r.generation_id = i)
        IN  [generation |-> i,
             best |-> best[k].fitness_score,
             average |-> IF gen_results # <<>>
                         THEN Round4(SumScores(gen_results), Len(gen_results))
                         ELSE 0]]

NoSummary == [made |-> FALSE, best_scenarios |-> <<>>, fitness_progression |-> <<>>]

\* a reporter with nothing to report yet
ReportInit ==
    /\ seen_population = <<>>
    /\ best_of_generation = <<>>
    /\ summary = NoSummary

----------------------------------------------------------------------------
(* models/scenario/scenario_pvc.py: PVCScenario *)

\* A namespace of the snapshot: its name, the names of its PVCs and pods
Namespace(name, pvcs, pods) == [name |-> name, pvcs |-> pvcs, pods |-> pods]

MaxNamespaces == 2
NamespaceNames == <<"ns1", "ns2", "ns3">>
PvcLists == {<<>>, <<"p1">>, <<"">>}
PodLists == {<<>>, <<"d1", "d2">>}

\* the snapshots: up to MaxNamespaces namespaces, each with any of the lists
Snapshots ==
    UNION {[1..n -> PvcLists \X PodLists] : n \in 0..MaxNamespaces}

AsComponents(f) ==
    [i \in DOMAIN f |-> Namespace(NamespaceNames[i], f[i][1], f[i][2])]

\* line 43: len(self._cluster_components.namespaces) == 0
HasNoNamespaces_Never(namespaces) == FALSE

HasNoNamespaces(namespaces) == Len(namespaces) = 0

RECURSIVE Pairs(_, _)
\* [(namespace, t) for t in targets]
Pairs(name, targets) ==
    IF targets = <<>> THEN <<>>
    ELSE <<(<<name, Head(targets)>>)>> \o Pairs(name, Tail(targets))

RECURSIVE PvcTuples(_)
\* lines 46-53: namespace_pvc_tuple
PvcTuples(namespaces) ==
    IF namespaces = <<>> THEN <<>>
    ELSE LET namespace == Head(namespaces)
         IN  (IF Len(namespace.pvcs) > 0
              THEN Pairs(namespace.name, namespace.pvcs)
              ELSE <<>>) \o PvcTuples(Tail(namespaces))

RECURSIVE PodTuples_IgnorePvcs(_)
\* a variant that lists the pods of every namespace
PodTuples_IgnorePvcs(namespaces) ==
    IF namespaces = <<>> THEN <<>>
    ELSE LET namespace == Head(namespaces)
         IN  (IF Len(namespace.pods) > 0
              THEN Pairs(namespace.name, namespace.pods)
              ELSE <<>>) \o PodTuples_IgnorePvcs(Tail(namespaces))

RECURSIVE PodTuples(_)
\* lines 47-57: namespace_pod_tuple
PodTuples(namespaces) ==
    IF namespaces = <<>> THEN <<>>
    ELSE LET namespace == Head(namespaces)
         IN  (IF Len(namespace.pvcs) > 0
              THEN <<>>
              ELSE IF Len(namespace.pods) > 0
              THEN Pairs(namespace.name, namespace.pods)
              ELSE <<>>) \o PodTuples(Tail(namespaces))

\* a variant that takes a PVC only when there is no pod to take
UsePvc_UnlessPods(namespace_pvc_tuple, namespace_pod_tuple) ==
    Len(namespace_pvc_tuple) > 0 /\ Len(namespace_pod_tuple) = 0

\* lines 62, 69: the PVC branch is taken whenever there is a PVC candidate
UsePvc(namespace_pvc_tuple, namespace_pod_tuple) ==
    Len(namespace_pvc_tuple) > 0

\* a variant that probes whatever name was bound
ShouldProbe_AnyTarget(on_pvc, name) == name # ""

\* lines 60-80: selected_pvc_name is the PVC's name on the PVC branch and None
\* on the pod branch; the probe is called if it is truthy
ShouldProbe(on_pvc, name) == on_pvc /\ name # ""

\* a variant that takes the usage only if it is truthy
MinUsage_Truthy(current_usage) ==
    IF current_usage.some /\ current_usage.num # 0 THEN current_usage ELSE None

\* lines 79-87: min_usage, given what the probe returned
MinUsage(current_usage) ==
    IF current_usage # None THEN current_usage ELSE None

\* The parameter classes are not part of the sources at hand; the range of
\* FillPercentageParameter and its mutate(min_value) follow the specification:
\* a draw from the range, from min_value upwards when one is given.
FillMin == 0
FillMax == 100
FillDefault == 0
DurationDefault == 20

Min(a, b) == IF a < b THEN a ELSE b
Max(a, b) == IF a > b THEN a ELSE b
\* the least integer not below n/d
Ceil(u) == -((-u.num) \div u.den)

FillMutate(r, min_value) ==
    LET low == IF min_value.some
               THEN Max(FillMin, Min(Ceil(min_value), FillMax))
               ELSE FillMin
    IN  Randint(r, low, FillMax + 1)

\* lines 18-22: the parameters of a new PVCScenario
NewScenario ==
    [exists |-> TRUE, namespace |-> "", pvc_name |-> "", pod_name |-> "",
     fill_percentage |-> FillDefault, duration |-> DurationDefault]

\* no object: the constructor has not run, or it raised
NoScenario == [NewScenario EXCEPT !.exists = FALSE]

\* lines 28-40: the names of the parameters rendered, in order
Parameters(s) ==
    IF s.pvc_name # ""
    THEN <<"namespace", "pvc_name", "fill_percentage", "duration">>
    ELSE IF s.pod_name # ""
    THEN <<"namespace", "pod_name", "fill_percentage", "duration">>
    ELSE <<"namespace", "fill_percentage", "duration">>

\* The probe call of lines 82-85 raises: another thread evicted the expired
\* entry of the key between this thread's lines 60 and 61 (or 67), and the
\* KeyError leaves the probe.  The entry and its marker are gone.
ProbeRaises == [kind |-> "raised", resp |-> NoResp]

\* lines 42-91: mutate on scenario s, with no other thread interleaved.
\* env is the cluster's answer should the probe ask it.  Yields the error
\* raised ("none" if it returns), the scenario, the RNG and the probe's
\* state after the call, and what the call did.
Mutate(s, namespaces, r, global, cache, logged, now, env) ==
    LET namespace_pvc_tuple == PvcTuples(namespaces)
        namespace_pod_tuple == PodTuples(namespaces)
        base == [error |-> "none", scen |-> s, rng |-> r, cache |-> cache,
                 logged |-> logged, pvc_cands |-> namespace_pvc_tuple,
                 pod_cands |-> namespace_pod_tuple, picked |-> <<"", "">>,
                 kind |-> "none", probed |-> FALSE, raised |-> FALSE,
                 usage |-> None, min_value |-> None]
    IN  IF HasNoNamespaces(namespaces)
        THEN [base EXCEPT !.error = "no_namespaces",
                          !.pvc_cands = <<>>, !.pod_cands = <<>>]
        ELSE IF Len(namespace_pvc_tuple) = 0 /\ Len(namespace_pod_tuple) = 0
        THEN [base EXCEPT !.error = "no_targets"]
        ELSE LET on_pvc == UsePvc(namespace_pvc_tuple, namespace_pod_tuple)
                 c == IF on_pvc THEN Choice(r, namespace_pvc_tuple)
                                ELSE Choice(r, namespace_pod_tuple)
                 s1 == [s EXCEPT !.namespace = c.out[1],
                                 !.pvc_name = IF on_pvc THEN c.out[2] ELSE "",
                                 !.pod_name = IF on_pvc THEN "" ELSE c.out[2]]
                 probed == ShouldProbe(on_pvc, c.out[2])
                 raised == probed /\ env = ProbeRaises
                 pr == IF raised
                       THEN [ret |-> None,
                             cache |-> DictDel(cache, <<c.out[1], c.out[2]>>),
                             logged |-> SetDiscard(logged, <<c.out[1], c.out[2]>>)]
                       ELSE Probe(c.out[2], c.out[1], NoPath, global, cache,
                                  logged, now, env, 0)
                 min_usage == IF probed /\ ~raised THEN MinUsage(pr.ret) ELSE None
                 f == FillMutate(c.rng, min_usage)
             IN  [base EXCEPT
                    !.scen = [s1 EXCEPT !.fill_percentage = f.out],
                    !.rng = f.rng,
                    !.cache = IF probed THEN pr.cache ELSE cache,
                    !.logged = IF probed THEN pr.logged ELSE logged,
                    !.picked = c.out,
                    !.kind = IF on_pvc THEN "pvc" ELSE "pod",
                    !.probed = probed,
                    !.raised = raised,
                    !.usage = IF probed THEN pr.ret ELSE None,
                    !.min_value = min_usage]

\* whether mutate on these namespaces gets to ask the cluster
MutateFetches(namespaces, r, global, cache, now) ==
    /\ Len(PvcTuples(namespaces)) > 0
    /\ LET c == Choice(r, PvcTuples(namespaces))
       IN  /\ c.out[2] # ""
           /\ ReachesFetch(c.out[2], c.out[1], NoPath, global, cache, now)

\* whether the probe call of mutate can find its key's expired entry evicted
\* under it
MutateCanRaise(namespaces, r, global, cache, now) ==
    /\ MutateFetches(namespaces, r, global, cache, now)
    /\ LET c == Choice(r, PvcTuples(namespaces))
       IN  <<c.out[1], c.out[2]>> \in DOMAIN cache

\* The record of one mutate call
MutateRecord(op, m) ==
    [op |-> op, error |-> m.error, before |-> scen, rng_before |-> rng,
     cache_before |-> pvc_usage_cache, logged_before |-> logged_pvcs,
     pvc_cands |-> m.pvc_cands, pod_cands |-> m.pod_cands, picked |-> m.picked,
     kind |-> m.kind, probed |-> m.probed, raised |-> m.raised,
     usage |-> m.usage, min_value |-> m.min_value]

NoMutate ==
    [op |-> "none", error |-> "none", before |-> NoScenario,
     rng_before |-> RngNew(NoSeed, 0), cache_before |-> <<>>,
     logged_before |-> {}, pvc_cands |-> <<>>, pod_cands |-> <<>>,
     picked |-> <<"", "">>, kind |-> "none", probed |-> FALSE,
     raised |-> FALSE, usage |-> None, min_value |-> None]

ScenInit(namespaces) ==
    /\ cluster_components = namespaces
    /\ scen = NoScenario
    /\ mut = NoMutate
    /\ ReportInit

----------------------------------------------------------------------------
(* Sequential probe calls *)

Workers == {1, 2}
WorkerNamespaces == {"ns1"}     \* the threads probe PVCs of one namespace

\* a thread outside the probe
IdleFrame == [pc |-> "idle", key |-> <<"", "">>, now |-> 0, usage |-> None]

\* rng = RNG() at import, and a second RNG(); e1, e2: the entropy they take
RngInit(e1, e2) ==
    /\ rng = RngNew(NoSeed, e1)
    /\ twin = RngNew(NoSeed, e2)
    /\ draw = NoDraw
    /\ rframes = [w \in Workers |-> IdleRngFrame]

ProbeInit ==
    /\ kubeconfig_path = NoPath
    /\ pvc_usage_cache = <<>>
    /\ logged_pvcs = {}
    /\ clock = 0
    /\ call = NoCall
    /\ frames = [w \in Workers |-> IdleFrame]

\* the probe never draws: the entropy the RNGs took is left out
Init ==
    /\ ProbeInit
    /\ RngInit(0, 0)
    /\ ScenInit(<<>>)

\* initialize_kubeconfig(kubeconfig_path)
InitializeKubeconfig(path) ==
    /\ kubeconfig_path' = path
    /\ call' = NoCall
    /\ UNCHANGED <<pvc_usage_cache, logged_pvcs, clock, frames, rngVars, scenVars>>

\* time passes between calls
Tick ==
    /\ clock < MaxTime
    /\ clock' = clock + 1
    /\ call' = NoCall
    /\ UNCHANGED <<kubeconfig_path, pvc_usage_cache, logged_pvcs, frames, rngVars, scenVars>>

GetPvcUsagePercentage(pvc_name, namespace, kubeconfig, env, dur) ==
    LET r == Probe(pvc_name, namespace, kubeconfig, kubeconfig_path,
                   pvc_usage_cache, logged_pvcs, clock, env, dur)
    IN  /\ r.clock <= MaxTime
        /\ pvc_usage_cache' = r.cache
        /\ logged_pvcs' = r.logged
        /\ clock' = r.clock
        /\ call' = Observed(pvc_name, namespace, kubeconfig, env, r)
        /\ UNCHANGED <<kubeconfig_path, frames, rngVars, scenVars>>

Next ==
    \/ \E path \in {"kc"} : InitializeKubeconfig(path)
    \/ Tick
    \/ \E pvc_name \in PvcNames, namespace \in Namespaces, kubeconfig \in KubeArgs :
          LET fetches == ReachesFetch(pvc_name, namespace, kubeconfig,
                                      kubeconfig_path, pvc_usage_cache, clock)
          IN  \E env \in IF fetches THEN Envs ELSE {NoAnswer},
                 dur \in IF fetches THEN 0..MaxDur ELSE {0} :
                GetPvcUsagePercentage(pvc_name, namespace, kubeconfig, env, dur)

Spec == Init /\ [][Next]_vars

----------------------------------------------------------------------------
(* Probe calls by concurrent worker threads.  Nothing in pvc_utils.py locks  *)
(* the cache or the logged set, so threads interleave between statements:   *)
(* each action below is one statement (or a run of statements on locals)    *)
(* of get_pvc_usage_percentage, executed by thread w.                       *)

Return(w) == frames' = [frames EXCEPT ![w] = IdleFrame]
Goto(w, label) == frames' = [frames EXCEPT ![w].pc = label]

\* lines 52-58: resolve the kubeconfig, build the key, read the time
Enter(w, pvc_name, namespace, kubeconfig) ==
    /\ frames[w].pc \in {"idle", "raised"}
    /\ IF ~Truthy(EffectiveKubeconfig(kubeconfig, kubeconfig_path))
       THEN Return(w)
       ELSE frames' = [frames EXCEPT ![w] =
                [pc |-> "in", key |-> <<namespace, pvc_name>>, now |-> clock,
                 usage |-> None]]
    /\ UNCHANGED <<probeVars, call, rngVars, scenVars>>

\* line 60: if cache_key in _pvc_usage_cache
CheckCache(w) ==
    /\ frames[w].pc = "in"
    /\ IF frames[w].key \in DOMAIN pvc_usage_cache
       THEN Goto(w, "read")
       ELSE Goto(w, "list")
    /\ UNCHANGED <<probeVars, call, rngVars, scenVars>>

\* lines 61-64: read the entry (KeyError if it is gone: the statement is
\* outside the try), compare, return the cached value if it is fresh
ReadEntry(w) ==
    /\ frames[w].pc = "read"
    /\ IF frames[w].key \notin DOMAIN pvc_usage_cache
       THEN Goto(w, "raised")
       ELSE IF IsFresh(frames[w].now, pvc_usage_cache[frames[w].key].ts)
       THEN Return(w)
       ELSE Goto(w, "del")
    /\ UNCHANGED <<probeVars, call, rngVars, scenVars>>

\* line 67: del _pvc_usage_cache[cache_key] (KeyError if it is gone)
DelEntry(w) ==
    /\ frames[w].pc = "del"
    /\ IF frames[w].key \notin DOMAIN pvc_usage_cache
       THEN /\ Goto(w, "raised")
            /\ UNCHANGED pvc_usage_cache
       ELSE /\ pvc_usage_cache' = DictDel(pvc_usage_cache, frames[w].key)
            /\ Goto(w, "discard")
    /\ UNCHANGED <<kubeconfig_path, logged_pvcs, clock, call, rngVars, scenVars>>

\* line 68: _logged_pvcs.discard(cache_key)
DiscardLogged(w) ==
    /\ frames[w].pc = "discard"
    /\ logged_pvcs' = SetDiscard(logged_pvcs, frames[w].key)
    /\ Goto(w, "list")
    /\ UNCHANGED <<kubeconfig_path, pvc_usage_cache, clock, call, rngVars, scenVars>>

\* lines 71-111: list the pods, find the pod and the mount
ListPods(w, env) ==
    /\ frames[w].pc = "list"
    /\ IF env.kind \in {"api_error", "no_pod", "no_mount"}
       THEN Return(w)
       ELSE Goto(w, "exec")
    /\ UNCHANGED <<probeVars, call, rngVars, scenVars>>

\* lines 113-140 and 149-160: run df in the pod, parse its output
ExecDf(w, env) ==
    /\ frames[w].pc = "exec"
    /\ env.kind \in {"exec_error", "resp"}
    /\ IF Fetch(env).msg = "found"
       THEN frames' = [frames EXCEPT ![w].pc = "store",
                                     ![w].usage = Fetch(env).usage]
       ELSE Return(w)
    /\ UNCHANGED <<probeVars, call, rngVars, scenVars>>

\* line 142: _pvc_usage_cache[cache_key] = (current_usage, current_time)
StoreEntry(w) ==
    /\ frames[w].pc = "store"
    /\ pvc_usage_cache' = DictPut(pvc_usage_cache, frames[w].key,
                                  [usage |-> frames[w].usage, ts |-> frames[w].now])
    /\ Goto(w, "logcheck")
    /\ UNCHANGED <<kubeconfig_path, logged_pvcs, clock, call, rngVars, scenVars>>

\* line 144: if cache_key not in _logged_pvcs
CheckLogged(w) ==
    /\ frames[w].pc = "logcheck"
    /\ IF ShouldLog(frames[w].key, logged_pvcs)
       THEN Goto(w, "log")
       ELSE Return(w)
    /\ UNCHANGED <<probeVars, call, rngVars, scenVars>>

\* lines 145-148: log 'Found PVC ... usage', mark the key logged, return
LogFound(w) ==
    /\ frames[w].pc = "log"
    /\ logged_pvcs' = logged_pvcs \cup {frames[w].key}
    /\ Return(w)
    /\ UNCHANGED <<kubeconfig_path, pvc_usage_cache, clock, call, rngVars, scenVars>>

NextWorkers ==
    \/ \E path \in {"kc"} : InitializeKubeconfig(path)
    \/ Tick
    \/ \E w \in Workers :
        \/ \E pvc_name \in PvcNames, namespace \in WorkerNamespaces,
              kubeconfig \in KubeArgs :
              Enter(w, pvc_name, namespace, kubeconfig)
        \/ CheckCache(w)
        \/ ReadEntry(w)
        \/ DelEntry(w)
        \/ DiscardLogged(w)
        \/ \E env \in Envs : ListPods(w, env)
        \/ \E env \in Envs : ExecDf(w, env)
        \/ StoreEntry(w)
        \/ CheckLogged(w)
        \/ LogFound(w)

SpecWorkers == Init /\ [][NextWorkers]_vars

----------------------------------------------------------------------------
(* Two RNG instances used side by side: rng is reseeded by set_seed, twin is *)
(* constructed with the same seed; a call is made on rng alone or on both.  *)

probeFrame == <<kubeconfig_path, pvc_usage_cache, logged_pvcs, clock, call, frames,
                scenVars>>

\* rng.set_seed(seed) and twin = RNG(seed)
RngSetSeed(seed, e1, e2) ==
    /\ rng' = SetSeed(rng, seed, e1)
    /\ twin' = RngNew(seed, e2)
    /\ draw' = [NoDraw EXCEPT !.op = "set_seed", !.seed = seed, !.both = TRUE]
    /\ UNCHANGED <<probeFrame, rframes>>

\* whether twin has received every call rng has since both were seeded
InStep == draw.both

RngRandom(both) ==
    /\ both => InStep
    /\ rng' = Random(rng).rng
    /\ twin' = IF both THEN Random(twin).rng ELSE twin
    /\ draw' = Drawn("random", both, Random(rng), Random(twin))
    /\ UNCHANGED <<probeFrame, rframes>>

RngChoice(items, both) ==
    /\ both => InStep
    /\ rng' = Choice(rng, items).rng
    /\ twin' = IF both THEN Choice(twin, items).rng ELSE twin
    /\ draw' = Drawn("choice", both, Choice(rng, items), Choice(twin, items))
    /\ UNCHANGED <<probeFrame, rframes>>

RngRandint(low, high, both) ==
    /\ both => InStep
    /\ rng' = Randint(rng, low, high).rng
    /\ twin' = IF both THEN Randint(twin, low, high).rng ELSE twin
    /\ draw' = Drawn("randint", both, Randint(rng, low, high),
                     Randint(twin, low, high))
    /\ UNCHANGED <<probeFrame, rframes>>

\* rng.randint(low, low), a call twin does not make
RngRandintSame(low) ==
    /\ InStep
    /\ rng' = Randint(rng, low, low).rng
    /\ draw' = [Drawn("randint_same", TRUE, Randint(rng, low, low),
                      Randint(rng, low, low))
                  EXCEPT !.alone = TRUE, !.low = low]
    /\ UNCHANGED <<probeFrame, twin, rframes>>

NextRng ==
    \/ \E seed \in Seeds \cup {NoSeed}, e1 \in GenStates, e2 \in GenStates :
          RngSetSeed(seed, e1, e2)
    \/ \E low \in DegenerateArgs : RngRandintSame(low)
    \/ \E both \in BOOLEAN : RngRandom(both)
    \/ \E items \in ChoiceArgs, both \in BOOLEAN : RngChoice(items, both)
    \/ \E a \in RandintArgs, both \in BOOLEAN : RngRandint(a[1], a[2], both)

InitRng ==
    /\ ProbeInit
    /\ ScenInit(<<>>)
    /\ \E e1 \in GenStates, e2 \in GenStates : RngInit(e1, e2)

SpecRng == InitRng /\ [][NextRng]_vars

----------------------------------------------------------------------------
(* The shared rng used by concurrent worker threads.  rng.py takes no lock: *)
(* set_seed is two assignments, and another thread may run between them.    *)
(* numpy's generator locks itself, so a single draw is one step.            *)

\* line 19: self.seed = seed
WSetSeedStore(w, seed) ==
    /\ rframes[w].pc = "idle"
    /\ rng' = [rng EXCEPT !.seed = seed]
    /\ rframes' = [rframes EXCEPT ![w] = [IdleRngFrame EXCEPT !.pc = "seeding",
                                                            !.seed = seed]]
    /\ UNCHANGED <<probeFrame, twin, draw>>

\* line 20: self.rng = np.random.default_rng(seed=seed)
WSetSeedGen(w, entropy) ==
    /\ rframes[w].pc = "seeding"
    /\ rng' = [rng EXCEPT !.gen = DefaultRng(rframes[w].seed, entropy)]
    /\ rframes' = [rframes EXCEPT ![w] = IdleRngFrame]
    /\ UNCHANGED <<probeFrame, twin, draw>>

\* get_seed: the thread keeps the seed it is told (seen); genof is the seed
\* the generator it would draw from at this moment was initialized with
WGetSeed(w) ==
    /\ rframes[w].pc = "idle"
    /\ rframes' = [rframes EXCEPT ![w].seen = GetSeed(rng),
                                  ![w].genof = rng.gen.origin]
    /\ UNCHANGED <<probeFrame, rng, twin, draw>>

WRandom(w) ==
    /\ rframes[w].pc = "idle"
    /\ rng' = Random(rng).rng
    /\ rframes' = [rframes EXCEPT ![w] = IdleRngFrame]
    /\ UNCHANGED <<probeFrame, twin, draw>>

WChoice(w, items) ==
    /\ rframes[w].pc = "idle"
    /\ rng' = Choice(rng, items).rng
    /\ rframes' = [rframes EXCEPT ![w] = IdleRngFrame]
    /\ UNCHANGED <<probeFrame, twin, draw>>

WRandint(w, low, high) ==
    /\ rframes[w].pc = "idle"
    /\ rng' = Randint(rng, low, high).rng
    /\ rframes' = [rframes EXCEPT ![w] = IdleRngFrame]
    /\ UNCHANGED <<probeFrame, twin, draw>>

NextRngWorkers ==
    \E w \in Workers :
        \/ \E seed \in Seeds \cup {NoSeed} : WSetSeedStore(w, seed)
        \/ \E entropy \in GenStates : WSetSeedGen(w, entropy)
        \/ WGetSeed(w)
        \/ WRandom(w)
        \/ \E items \in ChoiceArgs : WChoice(w, items)
        \/ \E a \in RandintArgs : WRandint(w, a[1], a[2])

\* twin is not used here: the entropy it took is left out
InitRngWorkers ==
    /\ ProbeInit
    /\ ScenInit(<<>>)
    /\ \E e1 \in GenStates : RngInit(e1, 0)

SpecRngWorkers == InitRngWorkers /\ [][NextRngWorkers]_vars

----------------------------------------------------------------------------
(* PVCScenario objects built and mutated on one snapshot, one call at a    *)
(* time.                                                                    *)

InitScenario ==
    /\ ProbeInit
    /\ \E e1 \in GenStates : RngInit(e1, 0)
    /\ \E f \in Snapshots : ScenInit(AsComponents(f))

ApplyMutate(op, m) ==
    /\ rng' = m.rng
    /\ pvc_usage_cache' = m.cache
    /\ logged_pvcs' = m.logged
    /\ mut' = MutateRecord(op, m)
    /\ UNCHANGED <<kubeconfig_path, clock, call, frames, twin, draw, rframes,
                   cluster_components, reportVars>>

\* the answers the cluster may give to the mutate call about to be made
ScenEnvs ==
    IF MutateFetches(cluster_components, rng, kubeconfig_path,
                     pvc_usage_cache, clock)
    THEN Envs \cup (IF MutateCanRaise(cluster_components, rng, kubeconfig_path,
                                      pvc_usage_cache, clock)
                    THEN {ProbeRaises} ELSE {})
    ELSE {NoAnswer}

\* lines 24-26: PVCScenario(cluster_components=...); no object if mutate raises
Construct ==
    \E env \in ScenEnvs :
        LET m == Mutate(NewScenario, cluster_components, rng, kubeconfig_path,
                        pvc_usage_cache, logged_pvcs, clock, env)
        IN  /\ scen' = IF m.error = "none" THEN m.scen ELSE NoScenario
            /\ ApplyMutate("init", m)

\* a variant that resets the object when the call raises
MutateCall_ResetsOnError ==
    /\ scen.exists
    /\ \E env \in ScenEnvs :
        LET m == Mutate(scen, cluster_components, rng, kubeconfig_path,
                        pvc_usage_cache, logged_pvcs, clock, env)
        IN  /\ scen' = IF m.error = "none" THEN m.scen ELSE NewScenario
            /\ ApplyMutate("mutate", m)

\* scenario.mutate() on the object at hand
MutateCall ==
    /\ scen.exists
    /\ \E env \in ScenEnvs :
        LET m == Mutate(scen, cluster_components, rng, kubeconfig_path,
                        pvc_usage_cache, logged_pvcs, clock, env)
        IN  /\ scen' = m.scen
            /\ ApplyMutate("mutate", m)

ScenInitializeKubeconfig(path) ==
    /\ kubeconfig_path' = path
    /\ mut' = NoMutate
    /\ UNCHANGED <<pvc_usage_cache, logged_pvcs, clock, call, frames, rngVars,
                   cluster_components, scen, reportVars>>

\* between two calls the cache's time-to-live elapses
ScenTick ==
    /\ clock + cache_ttl <= MaxTime
    /\ clock' = clock + cache_ttl
    /\ mut' = NoMutate
    /\ UNCHANGED <<kubeconfig_path, pvc_usage_cache, logged_pvcs, call, frames,
                   rngVars, cluster_components, scen, reportVars>>

NextScenario ==
    \/ \E path \in {"kc"} : ScenInitializeKubeconfig(path)
    \/ ScenTick
    \/ Construct
    \/ MutateCall

SpecScenario == InitScenario /\ [][NextScenario]_vars

\* the namespaces with their PVCs and pods gone
Emptied(namespaces) ==
    [i \in DOMAIN namespaces |-> Namespace(namespaces[i].name, <<>>, <<>>)]

\* The snapshot self._cluster_components reads is refreshed between calls,
\* after the cluster lost its PVCs and pods, or its namespaces
Rescan ==
    /\ \E namespaces \in {<<>>, Emptied(cluster_components)} :
          /\ namespaces # cluster_components
          /\ cluster_components' = namespaces
    /\ mut' = NoMutate
    /\ UNCHANGED <<probeVars, call, frames, rngVars, scen, reportVars>>

NextRescan ==
    \/ \E path \in {"kc"} : ScenInitializeKubeconfig(path)
    \/ Construct
    \/ MutateCall
    \/ Rescan

SpecRescan == InitScenario /\ [][NextRescan]_vars

----------------------------------------------------------------------------
(* A JSONSummaryReporter: the run hands it results and the best result of   *)
(* each generation, and a summary is generated from what it holds.          *)

reportFrame == <<kubeconfig_path, pvc_usage_cache, logged_pvcs, clock, call,
                 frames, rngVars, cluster_components, scen, mut>>

\* one more executed scenario in seen_population
AddResult(fitness_score) ==
    /\ Len(seen_population) < MaxPopulation
    /\ seen_population' = Append(seen_population,
            Result(Len(seen_population) + 1,
                   Len(seen_population) \div GenerationSize, fitness_score))
    /\ summary' = NoSummary
    /\ UNCHANGED <<reportFrame, best_of_generation>>

\* one more generation's best result in best_of_generation
AddBest(fitness_score) ==
    /\ Len(best_of_generation) < MaxGenerations
    /\ best_of_generation' = Append(best_of_generation,
            Result(0, Len(best_of_generation), fitness_score))
    /\ summary' = NoSummary
    /\ UNCHANGED <<reportFrame, seen_population>>

\* lines 58-124: generate_summary
GenerateSummary ==
    /\ summary' = [made |-> TRUE,
                   best_scenarios |-> BuildBestScenarios(seen_population),
                   fitness_progression |->
                       BuildFitnessProgression(best_of_generation,
                                               seen_population)]
    /\ UNCHANGED <<reportFrame, seen_population, best_of_generation>>

NextReport ==
    \/ \E fitness_score \in FitnessScores : AddResult(fitness_score)
    \/ \E fitness_score \in FitnessScores : AddBest(fitness_score)
    \/ GenerateSummary

SpecReport == Init /\ [][NextReport]_vars

----------------------------------------------------------------------------
(* Properties of sequential probe calls (Spec) *)

\* what the cluster's answer of the call amounts to
Answered == Fetch(call.answer).usage

HasConfig == Truthy(call.kubeconfig) \/ Truthy(call.global)

\* the entry of the call's key, as the call left it
EntryNow ==
    IF call.key \in DOMAIN pvc_usage_cache
    THEN pvc_usage_cache[call.key]
    ELSE [usage |-> None, ts |-> -1]

\* C1: with a usable kubeconfig, a call made less than 5 s after the entry's
\* timestamp returns the cached value and makes no remote call; a call made
\* 5 s or more after it (exactly 5 included) evicts the entry, asks the
\* cluster again and returns what the cluster answered, not the stored value.
C1_CacheTtl ==
    (call.called /\ HasConfig /\ call.had) =>
        IF call.now - call.ets < cache_ttl
        THEN /\ call.ret = call.eusage
             /\ call.remote = 0
             /\ ~call.evicted
             /\ EntryNow = [usage |-> call.eusage, ts |-> call.ets]
        ELSE /\ call.evicted
             /\ call.remote >= 1
             /\ call.answer \in Envs
             /\ call.ret = Answered
             /\ EntryNow.ts \in {-1, call.now}

\* C1 witness: a call exactly 5 s after the entry's timestamp that fetched anew
C1_Witness ==
    /\ call.called /\ HasConfig /\ call.had
    /\ call.now - call.ets = cache_ttl
    /\ call.remote = 2
    /\ call.ret.some /\ call.ret # call.eusage

----------------------------------------------------------------------------
(* Properties of concurrent probe calls (SpecWorkers) *)

\* thread w holds a usage it fetched from the cluster in this call
HasFetched(w) == frames[w].pc \in {"store", "logcheck", "log"}

SameWindow(w1, w2) ==
    /\ frames[w1].key = frames[w2].key
    /\ Abs(frames[w1].now - frames[w2].now) < cache_ttl

\* C2: the read-check-evict-write sequence is atomic per key, so two calls
\* for one key whose times lie within one TTL window never both fetch the
\* usage from the cluster, and never both log 'Found PVC ... usage'.
C2_AtomicPerKey ==
    \A w1 \in Workers : \A w2 \in Workers \ {w1} :
        SameWindow(w1, w2) =>
            /\ ~(HasFetched(w1) /\ HasFetched(w2))
            /\ ~(frames[w1].pc = "log" /\ frames[w2].pc = "log")

\* C3: every call returns a usage or None; no exception escapes the probe.
C3_NoExceptionEscapes ==
    \A w \in Workers : frames[w].pc # "raised"

----------------------------------------------------------------------------
(* Properties of the RNG (SpecRng) *)

\* C8: after rng.set_seed(s) and twin = RNG(s) for an integer s, however many
\* draws rng had made before, the same random / choice / randint calls made
\* in the same order on both return the same results and leave both
\* generators in the same state; get_seed returns s on both.
C8_Reproducible ==
    (InStep /\ draw.seed # NoSeed) =>
        /\ draw.out2 = draw.out
        /\ draw.raised2 = draw.raised
        /\ rng.gen.state = twin.gen.state
        /\ GetSeed(rng) = draw.seed
        /\ GetSeed(twin) = draw.seed

\* C8 witness: a choice made on both instances after a reseed with 2
C8_Witness ==
    /\ InStep /\ draw.op = "choice" /\ ~draw.raised
    /\ draw.seed = 2
    /\ rng.gen.state # SeedState(2)

----------------------------------------------------------------------------
(* Properties of the shared RNG under concurrent workers (SpecRngWorkers) *)

\* C9: calls on the shared RNG are serialized, so the seed a thread gets from
\* get_seed is the seed the generator it then draws from was initialized
\* with: no thread sees the seed of a set_seed whose generator is not yet
\* in place.
C9_SeedMatchesGenerator ==
    \A w \in Workers : rframes[w].seen = rframes[w].genof

----------------------------------------------------------------------------
(* Properties of PVCScenario (SpecScenario) *)

Succeeded == mut.op # "none" /\ mut.error = "none"
Failed == mut.op # "none" /\ mut.error # "none"

Range(seq) == {seq[i] : i \in DOMAIN seq}

\* C4: after every successful instantiation or mutate, whatever the names in
\* the snapshot, exactly one of pvc_name / pod_name is non-empty and the
\* rendered list is [namespace, the selected target, fill_percentage,
\* duration].
C4_ExactlyOneTarget ==
    Succeeded =>
        /\ (scen.pvc_name # "") # (scen.pod_name # "")
        /\ Parameters(scen) =
              <<"namespace", IF mut.kind = "pvc" THEN "pvc_name" ELSE "pod_name",
                "fill_percentage", "duration">>

\* C5: on a snapshot with no namespace the call fails with the 'no
\* namespaces' error, on one whose namespaces hold no PVC and no pod with the
\* 'no targets' error; a failed instantiation leaves no object, and a failed
\* call draws nothing from the RNG and does not call the probe.
C5_FailsWithoutEffects ==
    mut.op # "none" =>
        /\ Len(cluster_components) = 0 => mut.error = "no_namespaces"
        /\ (/\ Len(cluster_components) > 0
            /\ \A i \in DOMAIN cluster_components :
                  /\ cluster_components[i].pvcs = <<>>
                  /\ cluster_components[i].pods = <<>>)
              => mut.error = "no_targets"
        /\ Failed =>
              /\ mut.op = "init" => ~scen.exists
              /\ rng = mut.rng_before
              /\ ~mut.probed
              /\ pvc_usage_cache = mut.cache_before
              /\ logged_pvcs = mut.logged_before

\* C5 witness: an instantiation on two empty namespaces has failed
C5_Witness ==
    /\ mut.op = "init" /\ mut.error = "no_targets"
    /\ Len(cluster_components) = 2
    /\ ~scen.exists

\* the (namespace, pod) pairs of the namespaces with pods and no PVC
ExpectedPods ==
    UNION {{<<cluster_components[i].name, pod>> :
                pod \in Range(cluster_components[i].pods)} :
            i \in {n \in DOMAIN cluster_components :
                      cluster_components[n].pvcs = <<>>}}

\* the (namespace, pvc) pairs of all namespaces
ExpectedPvcs ==
    UNION {{<<cluster_components[i].name, pvc>> :
                pvc \in Range(cluster_components[i].pvcs)} :
            i \in DOMAIN cluster_components}

NoRepeats(seq) == Cardinality(Range(seq)) = Len(seq)

\* C6: the pod candidates are exactly the pods of the namespaces that have
\* pods and no PVC, the PVC candidates exactly the PVCs of all namespaces; a
\* pod picked as target never comes from a namespace that has a PVC.
C6_Candidates ==
    (mut.op # "none" /\ mut.error # "no_namespaces") =>
        /\ Range(mut.pod_cands) = ExpectedPods
        /\ NoRepeats(mut.pod_cands)
        /\ Range(mut.pvc_cands) = ExpectedPvcs
        /\ NoRepeats(mut.pvc_cands)
        /\ mut.kind = "pod" =>
              \E i \in DOMAIN cluster_components :
                  /\ cluster_components[i].name = mut.picked[1]
                  /\ cluster_components[i].pvcs = <<>>

\* C6 witness: ns1 has a PVC and pods, ns2 has only pods, and both lists are
\* non-empty
C6_Witness ==
    /\ Succeeded
    /\ Len(cluster_components) = 2
    /\ cluster_components[1].pvcs # <<>> /\ cluster_components[1].pods # <<>>
    /\ cluster_components[2].pvcs = <<>> /\ cluster_components[2].pods # <<>>
    /\ Range(mut.pod_cands) = {<<"ns2", "d1">>, <<"ns2", "d2">>}
    /\ mut.pvc_cands # <<>>

\* C7: when a PVC is selected and the probe returns a usage u, u (0.0
\* included) is the min_value handed to fill_percentage.mutate, and the
\* fill percentage drawn is at least u.
C7_BoundPropagation ==
    (Succeeded /\ mut.kind = "pvc" /\ mut.probed /\ mut.usage.some) =>
        /\ mut.min_value = mut.usage
        /\ RatLe(mut.usage, Ratio(scen.fill_percentage, 1))

\* C7 witness: the probe returned 0.0 for the selected PVC
C7_Witness ==
    /\ Succeeded /\ mut.kind = "pvc" /\ mut.probed
    /\ mut.usage = Ratio(0, 1)
    /\ mut.min_value = Ratio(0, 1)

----------------------------------------------------------------------------
(* More properties of the probe *)

\* the df output carries no usable (used, available) pair: it is empty, has
\* fewer than 4 fields, a non-numeric field, or used = available = 0
Unusable(resp) ==
    \/ resp.raw = ""
    \/ Len(resp.fields) < 4
    \/ ~resp.fields[3].num
    \/ ~resp.fields[4].num
    \/ (resp.fields[3].val = 0 /\ resp.fields[4].val = 0)

\* C11: when the df output is empty, has fewer than 4 fields, non-numeric
\* used/available fields, or used = available = 0, the probe returns None,
\* leaves no cache entry and no logged marker for the key, and the next call
\* for the key goes to the cluster again.
C11_UnusableOutputIsAbsent ==
    (call.called /\ call.answer.kind = "resp" /\ Unusable(call.answer.resp)) =>
        /\ call.ret = None
        /\ call.remote = 2
        /\ call.key \notin DOMAIN pvc_usage_cache
        /\ call.key \notin logged_pvcs
        /\ ReachesFetch(call.key[2], call.key[1], "kc", kubeconfig_path,
                        pvc_usage_cache, clock)

\* C11 witness: used = available = 0 came back for a key whose expired,
\* logged entry the call had just evicted
C11_Witness ==
    /\ call.called /\ call.answer.kind = "resp"
    /\ Len(call.answer.resp.fields) >= 4
    /\ call.answer.resp.fields[3] = Tok(0) /\ call.answer.resp.fields[4] = Tok(0)
    /\ call.evicted /\ call.waslogged
    /\ call.ret = None

\* The probe against garbled df output: int() accepts a signed field, so the
\* (used, available) pair parsed may hold a negative number
SignedDfPairs == DfPairs \cup {<<-1, 3>>, <<3, -1>>, <<-1, -1>>}

SignedEnvs ==
    {[kind |-> "resp",
      resp |-> [raw |-> "line",
                fields |-> <<Junk, Tok(4), Tok(p[1]), Tok(p[2]), Junk, Junk>>]] :
        p \in SignedDfPairs}

\* a call for one key with a kubeconfig given, answered with a df line
GarbledCall ==
    LET fetches == ReachesFetch("p1", "ns1", "kc", kubeconfig_path,
                                pvc_usage_cache, clock)
    IN  \E env \in IF fetches THEN SignedEnvs ELSE {NoAnswer},
           dur \in IF fetches THEN 0..MaxDur ELSE {0} :
            GetPvcUsagePercentage("p1", "ns1", "kc", env, dur)

NextGarbled ==
    \/ Tick
    \/ GarbledCall

SpecGarbled == Init /\ [][NextGarbled]_vars

\* 0 <= u <= 100, for a usage u
InPercentRange(u) == u.some => (0 <= u.num /\ u.num <= 100 * u.den)

\* C12: every usage the probe returns, and every usage held in the cache, is
\* within [0, 100], whatever integer pair the df output parses to.
C12_UsageInRange ==
    /\ call.called => InPercentRange(call.ret)
    /\ \A k \in DOMAIN pvc_usage_cache : InPercentRange(pvc_usage_cache[k].usage)

\* the call found a live entry for its key
IsHit == call.called /\ HasConfig /\ call.had /\ IsFresh(call.now, call.ets)

\* the call fetched a usage from the cluster
FetchedUsage == call.called /\ call.remote = 2 /\ call.ret.some

\* C13: in sequential calls a cache hit logs nothing; a call that evicts an
\* expired entry leaves the key unmarked unless its own fetch succeeds and
\* logs again; every successful fetch logs the usage exactly once; and the
\* keys marked as logged always have a cache entry.
C13_LoggedOncePerEntry ==
    /\ logged_pvcs \subseteq DOMAIN pvc_usage_cache
    /\ IsHit => call.msgs = <<>>
    /\ (call.called /\ call.evicted /\ ~call.ret.some) =>
            call.key \notin logged_pvcs
    /\ FetchedUsage =>
            /\ call.msgs = <<"found">>
            /\ call.key \in logged_pvcs

\* C13 witness: the call evicted an expired, logged entry and its fetch
\* logged the usage again
C13_Witness ==
    /\ FetchedUsage /\ call.evicted /\ call.waslogged
    /\ call.msgs = <<"found">>
    /\ call.key \in logged_pvcs

\* C14: a successful fetch stores its entry with the time at which the
\* result is stored, after the pod listing and the exec have returned, so an
\* entry is live for 5 s from the moment the fetch completed.
C14_StoredAtCompletion ==
    FetchedUsage => pvc_usage_cache[call.key].ts = clock

----------------------------------------------------------------------------
(* More properties of PVCScenario *)

SomePvc == \E i \in DOMAIN cluster_components : cluster_components[i].pvcs # <<>>

\* namespace name owns the PVC (kind "pvc") or pod (kind "pod") called target
Owns(name, kind, target) ==
    \E i \in DOMAIN cluster_components :
        /\ cluster_components[i].name = name
        /\ target \in Range(IF kind = "pvc" THEN cluster_components[i].pvcs
                                              ELSE cluster_components[i].pods)

\* C15: PVCs take precedence over pods across the whole snapshot: if any
\* namespace has a PVC the call binds namespace and pvc_name to a PVC
\* candidate and empties pod_name; a pod is bound, with pvc_name emptied,
\* only when no namespace has a PVC; the namespace bound owns the target.
C15_PvcPrecedence ==
    (mut.op # "none" /\ mut.error # "no_namespaces") =>
        IF SomePvc
        THEN /\ Succeeded /\ mut.kind = "pvc"
             /\ <<scen.namespace, scen.pvc_name>> \in Range(mut.pvc_cands)
             /\ scen.pod_name = ""
             /\ Owns(scen.namespace, "pvc", scen.pvc_name)
        ELSE Succeeded =>
             /\ mut.kind = "pod"
             /\ <<scen.namespace, scen.pod_name>> \in Range(mut.pod_cands)
             /\ scen.pvc_name = ""
             /\ Owns(scen.namespace, "pod", scen.pod_name)

\* C15 witness: ns1 has only pods, ns2 has a PVC and pods, and the PVC of
\* ns2 is bound
C15_Witness ==
    /\ Succeeded /\ mut.kind = "pvc"
    /\ Len(cluster_components) = 2
    /\ cluster_components[1].pvcs = <<>> /\ cluster_components[1].pods # <<>>
    /\ cluster_components[2].pvcs = <<"p1">> /\ cluster_components[2].pods # <<>>
    /\ scen.namespace = "ns2" /\ scen.pvc_name = "p1" /\ scen.pod_name = ""

\* the fill percentage a draw without a minimum yields after the target pick
UnboundedFill ==
    FillMutate(Choice(mut.rng_before, mut.pvc_cands).rng, None).out

\* C16: on the pod path the probe is not called and the cache and the logged
\* set stay as they were; when the probe returns None or raises, mutate
\* still succeeds and draws fill_percentage with min_value = None.
C16_ProbeOnlyOnPvc ==
    /\ (mut.op # "none" /\ mut.kind = "pod") =>
            /\ ~mut.probed
            /\ pvc_usage_cache = mut.cache_before
            /\ logged_pvcs = mut.logged_before
    /\ (mut.op # "none" /\ mut.probed /\ (mut.raised \/ ~mut.usage.some)) =>
            /\ Succeeded
            /\ mut.min_value = None
            /\ scen.fill_percentage = UnboundedFill

\* C16 witness: the probe raised inside a mutate that went on to succeed
C16_Witness ==
    /\ mut.op = "mutate" /\ mut.kind = "pvc" /\ mut.probed /\ mut.raised
    /\ Succeeded
    /\ mut.min_value = None

\* C19: a mutate that fails on an object an earlier mutate populated leaves
\* namespace, pvc_name, pod_name, fill_percentage and duration as they were;
\* and no mutate, failing or not, changes duration.
C19_FailedMutateKeepsValues ==
    /\ (mut.op = "mutate" /\ Failed) => scen = mut.before
    /\ mut.op = "mutate" => scen.duration = mut.before.duration
    /\ scen.exists => scen.duration = DurationDefault

\* C19 witness: the snapshot lost its targets, and the mutate that failed
\* on it left the PVC bound earlier in place
C19_Witness ==
    /\ mut.op = "mutate" /\ mut.error = "no_targets"
    /\ mut.before.pvc_name = "p1"
    /\ scen.pvc_name = "p1" /\ scen.namespace # ""
    /\ scen.duration = DurationDefault

----------------------------------------------------------------------------
(* More properties of the RNG (SpecRng) *)

\* C18: randint(low, low) returns low and leaves the generator as it was:
\* after rng alone has made such calls, every later draw made on rng and on
\* twin, seeded alike, still gives the same result on both.
C18_DegenerateRandint ==
    /\ draw.op = "randint_same" => (draw.out = draw.low /\ ~draw.raised)
    /\ (InStep /\ draw.alone /\ draw.seed # NoSeed /\ draw.op # "randint_same") =>
            /\ draw.out2 = draw.out
            /\ draw.raised2 = draw.raised
            /\ rng.gen.state = twin.gen.state
    /\ (InStep /\ draw.alone /\ draw.seed # NoSeed) =>
            rng.gen.state = twin.gen.state

\* C18 witness: a randint over a proper range made on both instances after
\* rng alone had made a randint(low, low)
C18_Witness ==
    /\ InStep /\ draw.alone /\ draw.seed # NoSeed
    /\ draw.op = "randint" /\ ~draw.raised
    /\ draw.out2 = draw.out
    /\ rng.gen.state # SeedState(draw.seed)

----------------------------------------------------------------------------
(* Properties of JSONSummaryReporter (SpecReport) *)

\* the scenario ids listed in best_scenarios
Listed == {summary.best_scenarios[i].scenario_id : i \in DOMAIN summary.best_scenarios}

\* C17: best_scenarios has min(10, n) entries for n results, ranked 1, 2, ...
\* in order, with scores that never rise along the ranks, and no result left
\* out scores higher than a listed one; fitness_progression has one entry
\* per element of best_of_generation, for generations 0, 1, ... in order.
C17_RankedSummary ==
    summary.made =>
        /\ Len(summary.best_scenarios) = Min(TopCount, Len(seen_population))
        /\ \A i \in DOMAIN summary.best_scenarios :
              /\ summary.best_scenarios[i].rank = i
              /\ \E j \in DOMAIN seen_population :
                    /\ seen_population[j].scenario_id =
                          summary.best_scenarios[i].scenario_id
                    /\ seen_population[j].fitness_score =
                          summary.best_scenarios[i].fitness_score
        /\ Cardinality(Listed) = Len(summary.best_scenarios)
        /\ \A i \in DOMAIN summary.best_scenarios :
              \A j \in DOMAIN summary.best_scenarios :
                 i < j => summary.best_scenarios[i].fitness_score >=
                          summary.best_scenarios[j].fitness_score
        /\ \A j \in DOMAIN seen_population :
              seen_population[j].scenario_id \notin Listed =>
                 \A i \in DOMAIN summary.best_scenarios :
                    seen_population[j].fitness_score <=
                       summary.best_scenarios[i].fitness_score
        /\ Len(summary.fitness_progression) = Len(best_of_generation)
        /\ \A k \in DOMAIN summary.fitness_progression :
              /\ summary.fitness_progression[k].generation = k - 1
              /\ summary.fitness_progression[k].best =
                    best_of_generation[k].fitness_score

\* C17 witness: eleven results, the one left out scoring 0 while a 1 is
\* listed last, and two generations reported
C17_Witness ==
    /\ summary.made
    /\ Len(seen_population) = 11
    /\ Len(summary.best_scenarios) = 10
    /\ summary.best_scenarios[10].fitness_score = 1
    /\ seen_population[1].fitness_score = 0
    /\ Len(summary.fitness_progression) = 2

====
